---- MODULE Spec2Model ----
(***************************************************************************)
(* Model of script/builder.py: the patch-application engine               *)
(* (normalize_to_list, upsert_provider, process_rules) and the            *)
(* minification projection (minify_data).                                  *)
(*                                                                         *)
(* Encoding of Python values:                                              *)
(*   str   -> a sequence of one-character strings, <<"a", ",", "b">>       *)
(*   YAML / JSON values -> tagged tuples Str(s), Bool(b), List(vs), None,  *)
(*                         Dict(items) (items: sequence of <<key, value>>) *)
(*   list of str (the array fields of a provider) -> sequence of str       *)
(*   dict with str keys (a provider) -> function from key to value         *)
(*   a field key of a patch -> <<prefix, base>> with prefix one of         *)
(*                         "rst-", "del-", "" and prefix \o base the key   *)
(***************************************************************************)
EXTENDS Integers, Sequences, FiniteSets, TLC

VARIABLES providers, del_list, delPos, add_dict, mod_dict, phase,
          logger, minified, pre, preLogger

vars == <<providers, del_list, delPos, add_dict, mod_dict, phase,
          logger, minified, pre, preLogger>>

(***************************************************************************)
(* Values                                                                  *)
(***************************************************************************)
Str(s) == <<"str", s>>
Bool(b) == <<"bool", b>>
List(vs) == <<"list", vs>>
Dict(items) == <<"dict", items>>
None == <<"none">>

IsStr(v) == v[1] = "str"
IsList(v) == v[1] = "list"

Range(s) == {s[i] : i \in 1..Len(s)}

\* Code points of the characters the model uses (Python compares str by
\* code point).
Ord(c) ==
  CASE c = " " -> 32 [] c = "\"" -> 34 [] c = "'" -> 39 [] c = "," -> 44
    [] c = "A" -> 65 [] c = "D" -> 68 [] c = "E" -> 69 [] c = "I" -> 73
    [] c = "L" -> 76 [] c = "N" -> 78 [] c = "R" -> 82 [] c = "T" -> 84
    [] c = "Y" -> 89 [] c = "\\" -> 92 [] c = "_" -> 95
    [] c = "a" -> 97 [] c = "b" -> 98 [] c = "c" -> 99 [] c = "e" -> 101
    [] c = "u" -> 117 [] c = "x" -> 120 [] c = "y" -> 121 [] c = "z" -> 122

\* s < t for Python str
RECURSIVE StrLess(_, _)
StrLess(s, t) ==
  IF t = <<>> THEN FALSE
  ELSE IF s = <<>> THEN TRUE
  ELSE IF Head(s) = Head(t) THEN StrLess(Tail(s), Tail(t))
  ELSE Ord(Head(s)) < Ord(Head(t))

\* sorted(list(S)) for a set S of str
RECURSIVE sorted(_)
sorted(S) ==
  IF S = {} THEN <<>>
  ELSE LET m == CHOOSE x \in S : \A y \in S \ {x} : StrLess(x, y)
       IN <<m>> \o sorted(S \ {m})

(***************************************************************************)
(* Configuration                                                           *)
(***************************************************************************)
KEYWORD_DELETE_ALL ==
  <<"D","E","L","E","T","E","_","E","N","T","I","R","E","_","A","R","R","A","Y">>

RULE_FIELDS == <<"rules", "referralMarketing", "rawRules", "redirections">>
ARRAY_FIELDS == RULE_FIELDS \o <<"exceptions">>

DEFAULT_PROVIDER ==
  [f \in {"urlPattern", "completeProvider", "rules", "referralMarketing",
          "rawRules", "exceptions", "redirections", "forceRedirection"} |->
     CASE f = "urlPattern" -> Str(<<>>)
       [] f = "completeProvider" -> Bool(TRUE)
       [] f = "forceRedirection" -> Bool(FALSE)
       [] OTHER -> <<>>]

(***************************************************************************)
(* MergeLogger                                                             *)
(***************************************************************************)
NewLogger == [lines |-> <<>>, warnings |-> <<>>]

log(lg, message) == [lg EXCEPT !.lines = Append(@, message)]

warn(lg, message) ==
  [lines |-> Append(lg.lines, message), warnings |-> Append(lg.warnings, message)]

(***************************************************************************)
(* normalize_to_list                                                       *)
(***************************************************************************)
\* value.replace(old, new) for a two-character old and a one-character new
RECURSIVE replace2(_, _, _)
replace2(s, old, new) ==
  IF Len(s) < 2 THEN s
  ELSE IF s[1] = old[1] /\ s[2] = old[2]
       THEN <<new>> \o replace2(SubSeq(s, 3, Len(s)), old, new)
       ELSE <<s[1]>> \o replace2(Tail(s), old, new)

\* value.replace(",", " ")
commaToSpace(s) == [i \in 1..Len(s) |-> IF s[i] = "," THEN " " ELSE s[i]]

\* str.split(): the maximal runs of non-whitespace characters
RECURSIVE splitFrom(_, _)
splitFrom(s, cur) ==
  IF s = <<>> THEN (IF cur = <<>> THEN <<>> ELSE <<cur>>)
  ELSE IF Head(s) = " "
       THEN (IF cur = <<>> THEN <<>> ELSE <<cur>>) \o splitFrom(Tail(s), <<>>)
       ELSE splitFrom(Tail(s), Append(cur, Head(s)))

split(s) == splitFrom(s, <<>>)

startswith(s, c) == Len(s) >= 1 /\ s[1] = c
endswith(s, c) == Len(s) >= 1 /\ s[Len(s)] = c

\* item[1:-1]
inner(item) == SubSeq(item, 2, Len(item) - 1)

cleanItem(item) ==
  IF startswith(item, "'") /\ endswith(item, "'") THEN inner(item)
  ELSE IF startswith(item, "\"") /\ endswith(item, "\"")
       THEN replace2(replace2(inner(item), <<"\\", "\\">>, "\\"), <<"\\", "\"">>, "\"")
       ELSE item

RECURSIVE normalize_to_list(_)
RECURSIVE normalizeAll(_)
normalize_to_list(value) ==
  IF IsStr(value)
  THEN LET raw_items == split(commaToSpace(value[2]))
       IN [i \in 1..Len(raw_items) |-> cleanItem(raw_items[i])]
  ELSE IF IsList(value) THEN normalizeAll(value[2])
  ELSE <<>>

normalizeAll(vs) ==
  IF vs = <<>> THEN <<>>
  ELSE normalize_to_list(Head(vs)) \o normalizeAll(Tail(vs))

(***************************************************************************)
(* Field keys and provider records                                         *)
(***************************************************************************)
Key(prefix, base) == <<prefix, base>>

\* field.startswith("rst-") / field.startswith("del-")
hasPrefix(field, prefix) == field[1] = prefix

\* field[4:] of a prefixed key; the key itself otherwise
baseName(field) == field[2]

\* k in ARRAY_FIELDS
inArrayFields(k) == k \in Range(ARRAY_FIELDS)

\* target.get(k, default)
get(target, k, default) == IF k \in DOMAIN target THEN target[k] ELSE default

\* target[k] = v
put(target, k, v) ==
  [x \in (DOMAIN target) \cup {k} |-> IF x = k THEN v ELSE target[x]]

\* "completeProvider" in patch_data
hasKey(items, field) == \E i \in 1..Len(items) : items[i][1] = field

\* not patch_data
falsy(patch_data) == patch_data = None \/ patch_data = Dict(<<>>)

\* sub in s
contains(s, sub) ==
  \E i \in 1..(Len(s) - Len(sub) + 1) : SubSeq(s, i, i + Len(sub) - 1) = sub

\* [x for x in xs if x in ys] (keep = TRUE) / if x not in ys (keep = FALSE)
RECURSIVE filter(_, _, _)
filter(xs, ys, keep) ==
  IF xs = <<>> THEN <<>>
  ELSE (IF (Head(xs) \in Range(ys)) = keep THEN <<Head(xs)>> ELSE <<>>)
       \o filter(Tail(xs), ys, keep)

(***************************************************************************)
(* upsert_provider                                                         *)
(***************************************************************************)
\* variant: the input as given, neither sorted nor deduplicated
resetArray_unsorted(value_list) == value_list

\* mode A on an array field: sorted(list(set(value_list)))
resetArray(value_list) == sorted(Range(value_list))

\* variant: the sentinel anywhere in the input empties the array
isDeleteAll_any(value_list) == KEYWORD_DELETE_ALL \in Range(value_list)

\* len(value_list) == 1 and value_list[0] == KEYWORD_DELETE_ALL
isDeleteAll(value_list) ==
  Len(value_list) = 1 /\ value_list[1] = KEYWORD_DELETE_ALL

\* mode B on an array field
deleteFromArray(original_list, value_list) ==
  IF isDeleteAll(value_list) THEN <<>>
  ELSE filter(original_list, value_list, FALSE)

not_found_items(original_list, value_list) ==
  filter(value_list, original_list, FALSE)

\* variant: extend the list, no set union
appendToArray_concat(original_list, value_list) == original_list \o value_list

\* mode C: set(original_list) updated with value_list, sorted
appendToArray(original_list, value_list) ==
  sorted(Range(original_list) \cup Range(value_list))

duplicates(original_list, value_list) ==
  filter(value_list, original_list, TRUE)

\* variant: del- on a name that is no array field removes the key
deleteNonArray_pop(target, target_field_name) ==
  [x \in (DOMAIN target) \ {target_field_name} |-> target[x]]

\* mode B when is_array is false: no branch of the code runs
deleteNonArray(target, target_field_name) == target

\* one iteration of "for field, value in patch_data.items()";
\* st = [target |-> provider, logger |-> MergeLogger]
applyField(st, name, field, value) ==
  LET target == st.target
      target_field_name == baseName(field)
      is_array == inArrayFields(target_field_name)
      value_list == IF is_array THEN normalize_to_list(value) ELSE <<>>
      original_list == get(target, target_field_name, <<>>)
  IN IF hasPrefix(field, "rst-")
     THEN [st EXCEPT !.target =
             put(target, target_field_name,
                 IF is_array THEN resetArray(value_list) ELSE value)]
     ELSE IF hasPrefix(field, "del-")
     THEN IF is_array
          THEN [target |-> put(target, target_field_name,
                               deleteFromArray(original_list, value_list)),
                logger |->
                  IF ~isDeleteAll(value_list)
                     /\ not_found_items(original_list, value_list) # <<>>
                  THEN warn(st.logger,
                            <<"[WARN] Cannot delete non-existent", name,
                              target_field_name,
                              not_found_items(original_list, value_list)>>)
                  ELSE st.logger]
          ELSE [st EXCEPT !.target = deleteNonArray(target, target_field_name)]
     ELSE IF is_array
     THEN [target |-> put(target, target_field_name,
                          appendToArray(original_list, value_list)),
           logger |->
             IF duplicates(original_list, value_list) # <<>>
             THEN log(st.logger,
                      <<"[Info] Skipped duplicates", name, target_field_name,
                        duplicates(original_list, value_list)>>)
             ELSE st.logger]
     ELSE [st EXCEPT !.target = put(target, target_field_name, value)]

RECURSIVE applyFields(_, _, _)
applyFields(st, name, items) ==
  IF items = <<>> THEN st
  ELSE applyFields(applyField(st, name, items[1][1], items[1][2]), name,
                   Tail(items))

\* variant: exceptions counted among the rule arrays
has_rules_allArrays(target) ==
  \E i \in 1..Len(ARRAY_FIELDS) : Len(get(target, ARRAY_FIELDS[i], <<>>)) > 0

\* any(len(target.get(f, [])) > 0 for f in RULE_FIELDS)
has_rules(target) ==
  \E i \in 1..Len(RULE_FIELDS) : Len(get(target, RULE_FIELDS[i], <<>>)) > 0

\* step 3: derive completeProvider unless the patch has the key
deriveComplete(target, items) ==
  IF ~hasKey(items, Key("", "completeProvider"))
  THEN put(target, "completeProvider", Bool(~has_rules(target)))
  ELSE target

ADD == "add-providers"
MODIFY == "modify-providers"

Create == <<"C","r","e","a","t","e">>
Modify == <<"M","o","d","i","f","y">>
MergeAddMod == <<"M","e","r","g","e"," ","(","A","d","d","-",">","M","o","d",")">>
CreateModAdd == <<"C","r","e","a","t","e"," ","(","M","o","d","-",">","A","d","d",")">>
WARN == <<"W","A","R","N">>

\* step 1: the action type of the upsert
action_type(exists, section_name) ==
  IF section_name = ADD
  THEN (IF exists THEN MergeAddMod ELSE Create)
  ELSE IF section_name = MODIFY
  THEN (IF ~exists THEN CreateModAdd ELSE Modify)
  ELSE <<>>

\* step 1: the warning of the classification, if any
classifyLog(lg, exists, name, section_name) ==
  IF section_name = ADD /\ exists
  THEN warn(lg, <<"[WARN] Duplicate Add", name>>)
  ELSE IF section_name = MODIFY /\ ~exists
  THEN warn(lg, <<"[WARN] Missing Modify", name>>)
  ELSE lg

\* the regular line, written when "WARN" is not in action_type
actionLog(lg, at, name) ==
  IF ~contains(at, WARN) THEN log(lg, <<"[action]", at, name>>) ELSE lg

\* variant: a missing record starts as an empty dict
ensureProvider_empty(provs, name) ==
  IF name \in DOMAIN provs THEN provs ELSE put(provs, name, <<>>)

\* providers[name] = copy.deepcopy(DEFAULT_PROVIDER) when name is missing
ensureProvider(provs, name) ==
  IF name \in DOMAIN provs THEN provs ELSE put(provs, name, DEFAULT_PROVIDER)

\* result: [providers |-> the catalog, logger |-> the logger]
upsert_provider(provs, name, patch_data, section_name, lg) ==
  IF falsy(patch_data) THEN [providers |-> provs, logger |-> lg]
  ELSE LET exists == name \in DOMAIN provs
           at == action_type(exists, section_name)
           lg1 == classifyLog(lg, exists, name, section_name)
           provs1 == ensureProvider(provs, name)
           lg2 == actionLog(lg1, at, name)
           st == applyFields([target |-> provs1[name], logger |-> lg2],
                             name, patch_data[2])
       IN [providers |-> put(provs1, name, deriveComplete(st.target, patch_data[2])),
           logger |-> st.logger]

(***************************************************************************)
(* minify_data                                                             *)
(***************************************************************************)
\* variant: completeProvider and forceRedirection kept when truthy
minifyProvider_truthy(provider) ==
  LET truthy(v) == v \notin {None, Bool(FALSE), Str(<<>>)}
      keep(k) ==
        IF k = "urlPattern" THEN k \in DOMAIN provider
        ELSE IF k \in {"completeProvider", "forceRedirection"}
        THEN truthy(get(provider, k, None))
        ELSE get(provider, k, <<>>) # <<>>
      keys == {k \in {"urlPattern", "completeProvider", "forceRedirection"}
                        \cup Range(ARRAY_FIELDS) : keep(k)}
  IN [k \in keys |-> provider[k]]

minifyProvider(provider) ==
  LET keep(k) ==
        IF k = "urlPattern" THEN k \in DOMAIN provider
        ELSE IF k \in {"completeProvider", "forceRedirection"}
        THEN get(provider, k, None) = Bool(TRUE)
        ELSE get(provider, k, <<>>) # <<>>
      keys == {k \in {"urlPattern", "completeProvider", "forceRedirection"}
                        \cup Range(ARRAY_FIELDS) : keep(k)}
  IN [k \in keys |-> provider[k]]

minify_data(provs) == [name \in DOMAIN provs |-> minifyProvider(provs[name])]

(***************************************************************************)
(* Inputs: the baseline catalog and the patch document                     *)
(***************************************************************************)
\* entries of add-providers / modify-providers that a run processes
MaxAdd == 1
MaxMod == 1

X == <<"x">>
Y == <<"y">>
Names == {X, Y}

\* a full record, rules unsorted
BaseFull ==
  [DEFAULT_PROVIDER EXCEPT !["urlPattern"] = Str(<<"u">>),
                           !["completeProvider"] = Bool(FALSE),
                           !["rules"] = << <<"b">>, <<"a">> >>,
                           !["exceptions"] = << <<"e">> >>]

\* a record as the minified upstream file has it: no array keys
BaseMini ==
  ("urlPattern" :> Str(<<"u">>)) @@ ("completeProvider" :> Bool(TRUE))

\* no urlPattern, a repeated entry, completeProvider not the derived value
BaseOdd ==
  ("completeProvider" :> Bool(TRUE)) @@ ("rules" :> << <<"a">>, <<"a">> >>)
    @@ ("forceRedirection" :> Bool(TRUE))

BaseRecords == {BaseFull, BaseMini, BaseOdd}

\* upstream_data["providers"]
Baselines ==
  {<<>>} \cup {(X :> r) : r \in BaseRecords} \cup {(X :> BaseFull) @@ (Y :> BaseFull)}

\* custom_data["del-providers"]
DelRaws ==
  { List(<<>>),
    List(<< Str(<<"x", ",", "z">>), Str(<<"'", "x", "'">>) >>) }

PatchObjects ==
  { None,
    Dict(<<>>),
    \* append
    Dict(<< <<Key("", "rules"), List(<<Str(<<"c">>), Str(<<"'", "a", "'", " ", "c">>)>>)>>,
            <<Key("", "exceptions"), Str(<<"x", " ", "e">>)>> >>),
    \* reset
    Dict(<< <<Key("rst-", "rules"), Str(<<"c", " ", "a", " ", "c">>)>> >>),
    Dict(<< <<Key("rst-", "rules"), None>>,
            <<Key("rst-", "urlPattern"), Str(<<"x">>)>>,
            <<Key("", "forceRedirection"), Bool(TRUE)>> >>),
    \* delete
    Dict(<< <<Key("del-", "rules"), Str(KEYWORD_DELETE_ALL)>> >>),
    Dict(<< <<Key("del-", "rules"), Str(<<"b", " ", "z">>)>> >>),
    Dict(<< <<Key("del-", "rules"), List(<<Str(KEYWORD_DELETE_ALL), Str(<<"a">>)>>)>> >>),
    Dict(<< <<Key("", "redirections"), Str(<<"b">>)>>,
            <<Key("del-", "exceptions"), Str(<<"e">>)>> >>),
    \* completeProvider
    Dict(<< <<Key("", "completeProvider"), Bool(FALSE)>> >>),
    Dict(<< <<Key("", "completeProvider"), Bool(TRUE)>>,
            <<Key("", "rules"), Str(<<"a">>)>> >>),
    Dict(<< <<Key("", "completeProvider"), Str(<<"y">>)>> >>),
    Dict(<< <<Key("rst-", "completeProvider"), Bool(FALSE)>> >>),
    \* keys that are not operations of the engine
    Dict(<< <<Key("del-", "urlPattern"), Str(<<"u">>)>> >>),
    Dict(<< <<Key("del-", "forceRedirection"), Bool(TRUE)>>,
            <<Key("", "exceptions"), Str(<<"x">>)>> >>),
    Dict(<< <<Key("", "foo"), Str(<<"a">>)>>,
            <<Key("rst-", "bar"), Str(<<"b">>)>>,
            <<Key("", "rules"), Str(<<"b">>)>> >>),
    Dict(<< <<Key("del-", "foo"), Str(<<"a">>)>>,
            <<Key("", "urlPattern"), Str(<<"x">>)>> >>) }

\* the patch objects a document may give a name: any of PatchObjects to X, an
\* append or an explicit completeProvider to Y
patchesFor(name) ==
  IF name = X THEN PatchObjects
  ELSE { Dict(<< <<Key("", "rules"), Str(<<"b", ",", "a">>)>> >>),
         Dict(<< <<Key("", "completeProvider"), Bool(FALSE)>> >>) }

(***************************************************************************)
(* process_rules, one step per loop iteration, then save_output's          *)
(* minify_data                                                             *)
(***************************************************************************)
Init ==
  /\ providers \in Baselines
  /\ \E raw \in DelRaws : del_list = normalize_to_list(raw)
  /\ delPos = 1
  /\ add_dict = <<>>
  /\ mod_dict = <<>>
  /\ phase = "del"
  /\ logger = log(NewLogger, <<"[-] Processing rules...">>)
  /\ minified = <<>>
  /\ pre = providers
  /\ preLogger = logger

\* the deletion loop has run to its end
delDone == delPos > Len(del_list)

keysOf(dict) == {dict[i][1] : i \in 1..Len(dict)}

\* variant: the record stays in the catalog
deleteName_keep(provs, name) == provs

\* del providers[name]
deleteName(provs, name) == [n \in (DOMAIN provs) \ {name} |-> provs[n]]

DeleteProvider ==
  /\ phase = "del"
  /\ ~delDone
  /\ LET name == del_list[delPos]
     IN IF name \in DOMAIN providers
        THEN /\ providers' = deleteName(providers, name)
             /\ logger' = log(logger, <<"[Delete]", name>>)
        ELSE /\ providers' = providers
             /\ logger' = warn(logger, <<"[WARN] Delete failed", name>>)
  /\ delPos' = delPos + 1
  /\ pre' = providers
  /\ preLogger' = logger
  /\ UNCHANGED <<del_list, add_dict, mod_dict, phase, minified>>

AddProvider ==
  /\ delDone
  /\ phase \in {"del", "add"}
  /\ Len(add_dict) < MaxAdd
  /\ \E name \in Names \ keysOf(add_dict) : \E patch \in patchesFor(name) :
       LET r == upsert_provider(providers, name, patch, ADD, logger)
       IN /\ providers' = r.providers
          /\ logger' = r.logger
          /\ add_dict' = Append(add_dict, <<name, patch>>)
  /\ phase' = "add"
  /\ pre' = providers
  /\ preLogger' = logger
  /\ UNCHANGED <<del_list, delPos, mod_dict, minified>>

ModifyProvider ==
  /\ delDone
  /\ phase \in {"del", "add", "mod"}
  /\ Len(mod_dict) < MaxMod
  /\ \E name \in Names \ keysOf(mod_dict) : \E patch \in patchesFor(name) :
       LET r == upsert_provider(providers, name, patch, MODIFY, logger)
       IN /\ providers' = r.providers
          /\ logger' = r.logger
          /\ mod_dict' = Append(mod_dict, <<name, patch>>)
  /\ phase' = "mod"
  /\ pre' = providers
  /\ preLogger' = logger
  /\ UNCHANGED <<del_list, delPos, add_dict, minified>>

\* process_rules returns and save_output minifies the merged catalog
SaveOutput ==
  /\ delDone
  /\ phase \in {"del", "add", "mod"}
  /\ phase' = "done"
  /\ minified' = minify_data(providers)
  /\ UNCHANGED <<providers, del_list, delPos, add_dict, mod_dict, logger,
                 pre, preLogger>>

Next == DeleteProvider \/ AddProvider \/ ModifyProvider \/ SaveOutput

Spec == Init /\ [][Next]_vars

(***************************************************************************)
(* The last upsert of the run so far                                       *)
(***************************************************************************)
\* the section of the last entry processed; the modification loop runs
\* after the addition loop
lastSection ==
  IF mod_dict # <<>> THEN MODIFY ELSE IF add_dict # <<>> THEN ADD ELSE "none"

lastEntry ==
  IF mod_dict # <<>> THEN mod_dict[Len(mod_dict)] ELSE add_dict[Len(add_dict)]

lastName == lastEntry[1]
lastPatch == lastEntry[2]

\* the last step of the patcher was an upsert that applied its patch
applied == lastSection # "none" /\ ~falsy(lastPatch)

\* the array field as the upsert found it
prior(f) ==
  IF lastName \in DOMAIN pre THEN get(pre[lastName], f, <<>>) ELSE <<>>

newLines == SubSeq(logger.lines, Len(preLogger.lines) + 1, Len(logger.lines))
newWarnings ==
  SubSeq(logger.warnings, Len(preLogger.warnings) + 1, Len(logger.warnings))

\* indexes of the items of a patch whose key has base name f
itemsOn(items, f) == {i \in 1..Len(items) : items[i][1][2] = f}

maxOf(S) == CHOOSE i \in S : \A j \in S : j <= i

isSortedDistinct(xs) ==
  \A i \in 1..Len(xs), j \in 1..Len(xs) : i < j => StrLess(xs[i], xs[j])

without(items, i) == SubSeq(items, 1, i - 1) \o SubSeq(items, i + 1, Len(items))

(***************************************************************************)
(* Derived completeProvider                                                *)
(***************************************************************************)
allRuleArraysEmpty(provider) ==
  /\ get(provider, "rules", <<>>) = <<>>
  /\ get(provider, "referralMarketing", <<>>) = <<>>
  /\ get(provider, "rawRules", <<>>) = <<>>
  /\ get(provider, "redirections", <<>>) = <<>>

\* C1: after an upsert applied a patch without the key completeProvider, the
\* record's completeProvider is true iff its four rule arrays are empty,
\* whatever exceptions holds.
Thm_C1 ==
  (applied /\ ~hasKey(lastPatch[2], Key("", "completeProvider")))
    => providers[lastName]["completeProvider"]
         = Bool(allRuleArraysEmpty(providers[lastName]))

\* an upsert without the key left a record with exceptions but no rule entry,
\* and completeProvider is true
Wit_C1 ==
  /\ applied
  /\ ~hasKey(lastPatch[2], Key("", "completeProvider"))
  /\ itemsOn(lastPatch[2], "exceptions") # {}
  /\ get(providers[lastName], "exceptions", <<>>) # <<>>
  /\ allRuleArraysEmpty(providers[lastName])
  /\ providers[lastName]["completeProvider"] = Bool(TRUE)

\* the value of the last item of the patch that sets completeProvider, by the
\* bare key or by rst-completeProvider
setsComplete(items) ==
  {i \in itemsOn(items, "completeProvider") : items[i][1][1] \in {"", "rst-"}}

\* C2: when the patch sets completeProvider, by the bare key or by
\* rst-completeProvider, the record's completeProvider after the upsert is the
\* value the patch supplied.
CE_C2 ==
  (applied /\ setsComplete(lastPatch[2]) # {})
    => providers[lastName]["completeProvider"]
         = lastPatch[2][maxOf(setsComplete(lastPatch[2]))][2]

(***************************************************************************)
(* Phase ordering                                                          *)
(***************************************************************************)
\* the deletion phase removed the record of this name
deleted(name) == <<"[Delete]", name>> \in Range(logger.lines)

\* the record an add patch builds on a catalog that lacks the name
fresh(name, patch) ==
  upsert_provider(<<>>, name, patch, ADD, NewLogger).providers[name]

\* the modification phase has applied no patch to the name
unmodified(name) ==
  \A j \in 1..Len(mod_dict) : mod_dict[j][1] = name => falsy(mod_dict[j][2])

\* C3: a baseline name listed in del-providers and, with a non-empty patch,
\* in add-providers is in the catalog after the addition, and until a
\* modification touches it its record is the default template with the add
\* patch applied, nothing of the baseline record.
Thm_C3 ==
  \A i \in 1..Len(add_dict) :
    (deleted(add_dict[i][1]) /\ ~falsy(add_dict[i][2]))
      => /\ add_dict[i][1] \in DOMAIN providers
         /\ unmodified(add_dict[i][1])
              => providers[add_dict[i][1]] = fresh(add_dict[i][1], add_dict[i][2])

\* a deleted baseline record was added again and differs from what the same
\* patch makes of the baseline record
Wit_C3 ==
  /\ phase = "done"
  /\ add_dict # <<>>
  /\ deleted(add_dict[1][1])
  /\ ~falsy(add_dict[1][2])
  /\ unmodified(add_dict[1][1])
  /\ providers[add_dict[1][1]] = fresh(add_dict[1][1], add_dict[1][2])
  /\ get(providers[add_dict[1][1]], "rules", <<>>) = << <<"a">>, <<"c">> >>

(***************************************************************************)
(* Keys that are not operations of the engine                              *)
(***************************************************************************)
SCALAR_FIELDS == {"urlPattern", "completeProvider", "forceRedirection"}

known(base) == inArrayFields(base) \/ base \in SCALAR_FIELDS

\* a del- key on a scalar field, or a key whose base name is no field
malformed(field) ==
  \/ field[1] = "del-" /\ field[2] \in SCALAR_FIELDS
  \/ ~known(field[2])

\* a malformed key that writes nothing: del- on a name that is no array field
inert(field) == field[1] = "del-" /\ ~inArrayFields(field[2])

\* the record of the last upsert, had item i been absent from its patch;
\* None when the catalog would lack the record
recordWithout(i) ==
  LET r == upsert_provider(pre, lastName, Dict(without(lastPatch[2], i)),
                           lastSection, preLogger).providers
  IN IF lastName \in DOMAIN r THEN r[lastName] ELSE None

\* C4 as stated: a malformed key is ignored, the record is what it would be
\* were the key absent from the patch (taken for patches that have another
\* key, so that the upsert runs with and without the malformed one).
CE_C4 ==
  (applied /\ Len(lastPatch[2]) > 1) =>
    \A i \in 1..Len(lastPatch[2]) :
      malformed(lastPatch[2][i][1]) => providers[lastName] = recordWithout(i)

\* f and g agree on every key but k
agreeExcept(f, g, k) ==
  /\ (DOMAIN f) \ {k} = (DOMAIN g) \ {k}
  /\ \A x \in (DOMAIN f) \ {k} : f[x] = g[x]

\* C4, amended: no malformed key fails the run. A del- key on a scalar field
\* or on an unknown name writes nothing; a bare or rst- key on an unknown
\* name stores its raw value under that name. When the patch has another
\* key, the rest of the record is what it would be were the key absent.
Thm_C4 ==
  applied =>
    /\ lastName \in DOMAIN providers
    /\ \A i \in 1..Len(lastPatch[2]) :
         LET field == lastPatch[2][i][1]
         IN malformed(field) =>
              /\ ~inert(field) =>
                   providers[lastName][field[2]]
                     = lastPatch[2][maxOf({j \in itemsOn(lastPatch[2], field[2]) :
                                             ~inert(lastPatch[2][j][1])})][2]
              /\ Len(lastPatch[2]) > 1 =>
                   IF inert(field)
                   THEN providers[lastName] = recordWithout(i)
                   ELSE agreeExcept(providers[lastName], recordWithout(i), field[2])

\* a patch with del-forceRedirection and an append left forceRedirection
\* true and applied the append
Wit_C4 ==
  /\ applied
  /\ hasKey(lastPatch[2], Key("del-", "forceRedirection"))
  /\ lastName \in DOMAIN pre
  /\ get(pre[lastName], "forceRedirection", None) = Bool(TRUE)
  /\ providers[lastName]["forceRedirection"] = Bool(TRUE)
  /\ get(providers[lastName], "exceptions", <<>>) # get(pre[lastName], "exceptions", <<>>)

(***************************************************************************)
(* Array operators                                                         *)
(***************************************************************************)
appendOnly(items) ==
  \A i \in 1..Len(items) : items[i][1][1] = "" /\ inArrayFields(items[i][1][2])

\* the last two upserts applied the same patch to the same name: the last
\* entry of add-providers, then the first of modify-providers
twice ==
  /\ Len(mod_dict) = 1
  /\ add_dict # <<>>
  /\ add_dict[Len(add_dict)] = mod_dict[1]
  /\ ~falsy(lastPatch)

sameArrays(f, g) ==
  \A k \in Range(ARRAY_FIELDS) :
    /\ (k \in DOMAIN f) = (k \in DOMAIN g)
    /\ k \in DOMAIN f => f[k] = g[k]

\* C5: applying a patch of bare array-field keys a second time leaves every
\* array field as the first application left it.
Thm_C5 ==
  (twice /\ appendOnly(lastPatch[2]))
    => sameArrays(providers[lastName], pre[lastName])

\* the append patch met its own entries in a non-empty rules array
Wit_C5 ==
  /\ twice
  /\ appendOnly(lastPatch[2])
  /\ itemsOn(lastPatch[2], "rules") # {}
  /\ Len(providers[lastName]["rules"]) >= 2
  /\ \E i \in 1..Len(newLines) : newLines[i][1] = "[Info] Skipped duplicates"

\* the one del- item of the last patch on array field f, when no other item
\* of the patch has that base name
soleDelete(f) ==
  IF applied /\ Cardinality(itemsOn(lastPatch[2], f)) = 1
       /\ lastPatch[2][maxOf(itemsOn(lastPatch[2], f))][1][1] = "del-"
  THEN maxOf(itemsOn(lastPatch[2], f))
  ELSE 0

\* C6: del-<field> with normalized value [DELETE_ENTIRE_ARRAY] empties the
\* field; with any other value the field is the prior values without the
\* elements of the input, and the input elements that were not there are
\* reported in a warning.
Thm_C6 ==
  \A f \in Range(ARRAY_FIELDS) :
    soleDelete(f) # 0 =>
      LET input == normalize_to_list(lastPatch[2][soleDelete(f)][2])
          absent == {x \in Range(input) : x \notin Range(prior(f))}
      IN IF input = <<KEYWORD_DELETE_ALL>>
         THEN providers[lastName][f] = <<>>
         ELSE /\ providers[lastName][f]
                   = SelectSeq(prior(f), LAMBDA x : x \notin Range(input))
              /\ absent # {} =>
                   \E i \in 1..Len(newWarnings) :
                     /\ newWarnings[i][1] = "[WARN] Cannot delete non-existent"
                     /\ newWarnings[i][2] = lastName
                     /\ newWarnings[i][3] = f
                     /\ Range(newWarnings[i][4]) = absent

\* a delete whose input holds the sentinel and an entry removed the entry,
\* kept the other one and reported the sentinel as not found
Wit_C6 ==
  /\ soleDelete("rules") # 0
  /\ normalize_to_list(lastPatch[2][soleDelete("rules")][2])
       = <<KEYWORD_DELETE_ALL, <<"a">> >>
  /\ prior("rules") = << <<"b">>, <<"a">> >>
  /\ providers[lastName]["rules"] = << <<"b">> >>
  /\ newWarnings # <<>>

(***************************************************************************)
(* Minification                                                            *)
(***************************************************************************)
\* C7: minify_data keeps every record name and, per record, emits
\* completeProvider and forceRedirection iff the value is exactly true, an
\* array key iff the array is non-empty and urlPattern iff the record has it,
\* each with the value of the merged record.
Thm_C7 ==
  phase = "done" =>
    /\ DOMAIN minified = DOMAIN providers
    /\ \A n \in DOMAIN providers :
         LET r == providers[n]
             m == minified[n]
         IN /\ DOMAIN m \subseteq DOMAIN r
            /\ \A k \in DOMAIN m : m[k] = r[k]
            /\ "urlPattern" \in DOMAIN m <=> "urlPattern" \in DOMAIN r
            /\ \A k \in {"completeProvider", "forceRedirection"} :
                 k \in DOMAIN m <=> (k \in DOMAIN r /\ r[k] = Bool(TRUE))
            /\ \A k \in {"rules", "referralMarketing", "rawRules",
                         "redirections", "exceptions"} :
                 k \in DOMAIN m <=> (k \in DOMAIN r /\ Len(r[k]) > 0)
            /\ DOMAIN m \subseteq {"urlPattern", "completeProvider",
                                   "forceRedirection", "rules",
                                   "referralMarketing", "rawRules",
                                   "redirections", "exceptions"}

\* a record with completeProvider false, forceRedirection false and empty
\* arrays was minified to its urlPattern alone
Wit_C7 ==
  /\ phase = "done"
  /\ \E n \in DOMAIN providers :
       /\ providers[n]["completeProvider"] = Bool(FALSE)
       /\ get(providers[n], "forceRedirection", None) = Bool(FALSE)
       /\ \A k \in Range(ARRAY_FIELDS) : get(providers[n], k, <<>>) = <<>>
       /\ DOMAIN minified[n] = {"urlPattern"}

(***************************************************************************)
(* Log events of an upsert                                                 *)
(***************************************************************************)
classifying(message) ==
  message[1] \in {"[WARN] Duplicate Add", "[WARN] Missing Modify", "[action]"}

\* C8: an upsert that applies a patch writes one classification event: the
\* warning of a duplicate add or of a missing modify, or else the regular
\* line.
CE_C8 ==
  applied =>
    Cardinality({i \in 1..Len(newLines) : classifying(newLines[i])}) = 1

(***************************************************************************)
(* Canonical arrays                                                        *)
(***************************************************************************)
\* the patches that were applied to the name, in the order of the phases
patchesOf(name) ==
  LET pick(dict) == SelectSeq(dict, LAMBDA e : e[1] = name /\ ~falsy(e[2]))
      ps == pick(add_dict) \o pick(mod_dict)
  IN [i \in 1..Len(ps) |-> ps[i][2][2]]

\* the prefix of the key of the last operation of the run on the field, or
\* "no" when no patch operated on it
RECURSIVE lastMode(_, _)
lastMode(ps, f) ==
  IF ps = <<>> THEN "no"
  ELSE LET items == ps[Len(ps)]
       IN IF itemsOn(items, f) # {}
          THEN items[maxOf(itemsOn(items, f))][1][1]
          ELSE lastMode(SubSeq(ps, 1, Len(ps) - 1), f)

missingModify ==
  lastSection = MODIFY /\ lastName \notin DOMAIN pre

hasMissingModifyWarning ==
  \E i \in 1..Len(newWarnings) :
    newWarnings[i] = <<"[WARN] Missing Modify", lastName>>

\* C10 as stated: a modify-providers name absent from the catalog is created
\* with a Missing-Modify warning, whatever its patch object.
CE_C10 ==
  missingModify => (lastName \in DOMAIN providers /\ hasMissingModifyWarning)

\* the value the default template gives a key
template(k) ==
  CASE k = "urlPattern" -> Str(<<>>)
    [] k = "completeProvider" -> Bool(TRUE)
    [] k = "forceRedirection" -> Bool(FALSE)
    [] OTHER -> <<>>

\* C10, amended: a modify-providers name absent from the catalog, with a
\* non-empty patch object, is in the catalog after its upsert with a
\* Missing-Modify warning; every key of the default template is there, with
\* the template's value where the patch has no key for it (completeProvider:
\* where the patch has no key for it nor for a rule array).
Thm_C10 ==
  (missingModify /\ ~falsy(lastPatch)) =>
    /\ lastName \in DOMAIN providers
    /\ hasMissingModifyWarning
    /\ \A k \in {"urlPattern", "completeProvider", "forceRedirection", "rules",
                 "referralMarketing", "rawRules", "redirections", "exceptions"} :
         /\ k \in DOMAIN providers[lastName]
         /\ (/\ itemsOn(lastPatch[2], k) = {}
             /\ k = "completeProvider" =>
                  \A f \in Range(RULE_FIELDS) : itemsOn(lastPatch[2], f) = {})
              => providers[lastName][k] = template(k)

\* a modify of a name the deletion phase removed created it from the template
Wit_C10 ==
  /\ missingModify
  /\ ~falsy(lastPatch)
  /\ deleted(lastName)
  /\ hasMissingModifyWarning
  /\ providers[lastName]["urlPattern"] = Str(<<>>)
  /\ providers[lastName]["exceptions"] = <<>>

====
